---------------------------- MODULE Spec2Model ----------------------------
(***************************************************************************)
(* Model of the UTXO runtime module in src/runtime/src/utxo.rs: the two    *)
(* storage items (UtxoStore, RewardTotal), the dispatchable spend, the     *)
(* on_finalize hook, and the helpers validate_transaction, update_storage  *)
(* and disperse_reward.                                                    *)
(*                                                                         *)
(* Abstractions.                                                           *)
(*  - BlakeTwo256 is modelled as a collision-free hash: a digest is the    *)
(*    tagged preimage it was computed from.  The three preimage shapes     *)
(*    used by the code have different byte lengths, so the tags never      *)
(*    identify two digests the real hash would distinguish by preimage.    *)
(*  - An sr25519 signature is the triple (signer, nonce, signed message);  *)
(*    it verifies under a key and a message exactly if it was made by that *)
(*    key over that message.  The nonce models that signing is randomised: *)
(*    one key has several valid signatures over one message.               *)
(*  - Value (u128) and the priority field (u64) are scaled to ValueBits    *)
(*    and PriorityBits bits; every checked operation and every `as` cast   *)
(*    is computed at that width.                                           *)
(***************************************************************************)
EXTENDS Integers, Sequences, FiniteSets, TLC

VARIABLES
    UtxoStore,      \* storage map H256 => Option<TransactionOutput>
    RewardTotal,    \* storage value RewardTotal : Value
    authorities,    \* Aura::authorities(), each as its H256 key
    config,         \* GenesisConfig: genesis_utxos of the chain specification
    events,         \* events deposited in the current block
    block_number,   \* frame_system block number of the block being executed
    finalized,      \* on_finalize has run for the current block
    panicked,       \* the runtime hit an unwrap() on None/Err
    spent,          \* history: the entries removed from UtxoStore by some spend
    commits,        \* history: number of spend calls that returned Ok
    last            \* history: the last call, its arguments, result and pre-state

vars == <<UtxoStore, RewardTotal, authorities, config, events, block_number, finalized, panicked,
          spent, commits, last>>

---------------------------------------------------------------------------
(* Bounds *)

\* Width of Value in bits (u128 in the source, scaled down).
ValueBits == 3
\* Longest input list and output list of a transaction drawn in SpecWide.
MaxInputs == 2
MaxOutputs == 2
\* Number of successful spends explored in Spec.
MaxCommits == 3
\* Number of blocks whose on_finalize is explored; the block after the last
\* of them is explored up to its finalization.
MaxFinalized == 1
\* Longest list of genesis outputs drawn in SpecGenesis.
MaxGenesis == 2

\* Width of ValidTransaction.priority (u64: narrower than Value).
PriorityBits == ValueBits - 1

RECURSIVE Pow2(_)
Pow2(n) == IF n = 0 THEN 1 ELSE 2 * Pow2(n - 1)

\* Value::max_value()
MaxValue == Pow2(ValueBits) - 1
\* u64::max_value()
MaxPriority == Pow2(PriorityBits) - 1

\* sr25519 public keys (H256).
Keys == {1, 2}
\* Distinct signatures one key can produce over one message.
Nonces == {1, 2}

---------------------------------------------------------------------------
(* Data model *)

\* struct TransactionOutput { value, pub_key }
TransactionOutput(v, k) == [value |-> v, pub_key |-> k]

\* TransactionOutput::default()
DefaultOutput == TransactionOutput(0, 0)

\* struct Transaction { inputs, outputs }; Transaction::default()
DefaultTransaction == [inputs |-> <<>>, outputs |-> <<>>]

\* H512::zero()
ZeroSig == [signer |-> 0, nonce |-> 0, msg |-> <<<<>>, <<>>>>]

\* A signature by key k (with randomness n) over the message msg.
Sign(k, n, msg) == [signer |-> k, nonce |-> n, msg |-> msg]

\* struct TransactionInput { out_point, sig_script }
TransactionInput(op, sig) == [out_point |-> op, sig_script |-> sig]

\* SCALE encoding of a transaction: injective, every field in order.  The
\* encoding is kept as the pair of field lists it serialises.
encode(transaction) ==
    <<transaction.inputs, transaction.outputs>>

\* BlakeTwo256::hash_of(&u): digest of an output's own encoding.
hash_of_output(u) ==
    [pre |-> "output", utxo |-> u, bytes |-> <<<<>>, <<>>>>, n |-> 0]

\* BlakeTwo256::hash_of(&(&transaction.encode(), index))
hash_of_encoded_index(bytes, index) ==
    [pre |-> "tx", utxo |-> DefaultOutput, bytes |-> bytes, n |-> index]

\* BlakeTwo256::hash_of(&(&utxo, block_number))
hash_of_output_block(u, bn) ==
    [pre |-> "reward", utxo |-> u, bytes |-> <<<<>>, <<>>>>, n |-> bn]

\* Mutant of sr25519_verify: the message is not compared.
sr25519_verify_any_message(sig, msg, pubkey) ==
    /\ sig.nonce # 0
    /\ sig.signer = pubkey

\* sp_io::crypto::sr25519_verify(sig, msg, pubkey)
sr25519_verify(sig, msg, pubkey) ==
    /\ sig.nonce # 0
    /\ sig.signer = pubkey
    /\ sig.msg = msg

\* checked_add on Value: [ok, val]
checked_add(a, b) ==
    IF a + b > MaxValue THEN [ok |-> FALSE, val |-> 0]
    ELSE [ok |-> TRUE, val |-> a + b]

\* `reward as u64`: truncation to the low PriorityBits bits.
as_u64(v) == v % Pow2(PriorityBits)

\* `priority as Value`: zero extension.
as_Value(p) == p

\* Range of a sequence.
Range(s) == {s[i] : i \in 1..Len(s)}

---------------------------------------------------------------------------
(* get_simple_transaction: the transaction with every sig_script zeroed,   *)
(* encoded.                                                                *)
get_simple_transaction(transaction) ==
    encode([inputs  |-> [i \in 1..Len(transaction.inputs) |->
                            TransactionInput(transaction.inputs[i].out_point, ZeroSig)],
            outputs |-> transaction.outputs])


---------------------------------------------------------------------------
(* validate_transaction                                                    *)

\* A rejected validation: Err(msg).
Rejected(msg) ==
    [ok |-> FALSE, err |-> msg, requires |-> <<>>, provides |-> <<>>, priority |-> 0]

\* The loop over the inputs, from input i on, with the running total and
\* the missing list so far.  Yields [err, total, missing].
RECURSIVE InputLoop(_, _, _, _, _, _)
InputLoop(transaction, store, simple_transaction, i, total_input, missing_utxos) ==
    IF i > Len(transaction.inputs)
    THEN [err |-> "", total |-> total_input, missing |-> missing_utxos]
    ELSE LET input == transaction.inputs[i] IN
         IF input.out_point \in DOMAIN store
         THEN LET input_utxo == store[input.out_point]
                  sum == checked_add(total_input, input_utxo.value)
              IN  IF ~sr25519_verify(input.sig_script, simple_transaction,
                                     input_utxo.pub_key)
                  THEN [err |-> "signature must be valid", total |-> total_input,
                        missing |-> missing_utxos]
                  ELSE IF ~sum.ok
                  THEN [err |-> "input value overflow", total |-> total_input,
                        missing |-> missing_utxos]
                  ELSE InputLoop(transaction, store, simple_transaction, i + 1,
                                 sum.val, missing_utxos)
         ELSE InputLoop(transaction, store, simple_transaction, i + 1,
                        total_input, Append(missing_utxos, input.out_point))

\* Mutant of OutputLoop: the check that the output's value is nonzero is
\* left out.
RECURSIVE OutputLoopNoZeroCheck(_, _, _, _, _)
OutputLoopNoZeroCheck(transaction, store, i, total_output, new_utxos) ==
    IF i > Len(transaction.outputs)
    THEN [err |-> "", total |-> total_output, new_utxos |-> new_utxos]
    ELSE LET output == transaction.outputs[i]
             hash == hash_of_encoded_index(encode(transaction), i - 1)
             sum == checked_add(total_output, output.value)
         IN  IF hash \in DOMAIN store
             THEN [err |-> "output already exists", total |-> total_output,
                   new_utxos |-> new_utxos]
             ELSE IF ~sum.ok
             THEN [err |-> "output value overflow", total |-> total_output,
                   new_utxos |-> new_utxos]
             ELSE OutputLoopNoZeroCheck(transaction, store, i + 1, sum.val,
                                        Append(new_utxos, hash))

\* Mutant of OutputLoop: the contains_key check on the output id is left out.
RECURSIVE OutputLoopNoCollisionCheck(_, _, _, _, _)
OutputLoopNoCollisionCheck(transaction, store, i, total_output, new_utxos) ==
    IF i > Len(transaction.outputs)
    THEN [err |-> "", total |-> total_output, new_utxos |-> new_utxos]
    ELSE LET output == transaction.outputs[i]
             hash == hash_of_encoded_index(encode(transaction), i - 1)
             sum == checked_add(total_output, output.value)
         IN  IF ~(output.value > 0)
             THEN [err |-> "output value must be nonzero", total |-> total_output,
                   new_utxos |-> new_utxos]
             ELSE IF ~sum.ok
             THEN [err |-> "output value overflow", total |-> total_output,
                   new_utxos |-> new_utxos]
             ELSE OutputLoopNoCollisionCheck(transaction, store, i + 1, sum.val,
                                             Append(new_utxos, hash))

\* The loop over the outputs, from output i on (output_index = i - 1).
\* Yields [err, total, new_utxos].  output_index is a u64 and the list is
\* shorter than 2^64, so its checked_add never fails.
RECURSIVE OutputLoop(_, _, _, _, _)
OutputLoop(transaction, store, i, total_output, new_utxos) ==
    IF i > Len(transaction.outputs)
    THEN [err |-> "", total |-> total_output, new_utxos |-> new_utxos]
    ELSE LET output == transaction.outputs[i]
             hash == hash_of_encoded_index(encode(transaction), i - 1)
             sum == checked_add(total_output, output.value)
         IN  IF ~(output.value > 0)
             THEN [err |-> "output value must be nonzero", total |-> total_output,
                   new_utxos |-> new_utxos]
             ELSE IF hash \in DOMAIN store
             THEN [err |-> "output already exists", total |-> total_output,
                   new_utxos |-> new_utxos]
             ELSE IF ~sum.ok
             THEN [err |-> "output value overflow", total |-> total_output,
                   new_utxos |-> new_utxos]
             ELSE OutputLoop(transaction, store, i + 1, sum.val,
                             Append(new_utxos, hash))

\* Mutant of structural_checks: the two BTreeMap length checks are left out.
structural_checks_no_duplicates(transaction) ==
    IF transaction.inputs = <<>> THEN "no inputs"
    ELSE IF transaction.outputs = <<>> THEN "no outputs"
    ELSE ""

\* The checks made before any storage read: the error message of the first
\* one that fails, "" if none does.  A BTreeMap keyed by the elements has
\* as many entries as the list exactly if no two elements are equal.
structural_checks(transaction) ==
    IF transaction.inputs = <<>> THEN "no inputs"
    ELSE IF transaction.outputs = <<>> THEN "no outputs"
    ELSE IF Cardinality(Range(transaction.inputs)) # Len(transaction.inputs)
    THEN "each input must only be used once"
    ELSE IF Cardinality(Range(transaction.outputs)) # Len(transaction.outputs)
    THEN "each output must only be used once"
    ELSE ""

\* Mutant of validate_transaction: total_input >= total_output is required
\* of every transaction, also of one with missing inputs.
validate_transaction_totals_always(transaction, store) ==
    IF structural_checks(transaction) # ""
    THEN Rejected(structural_checks(transaction))
    ELSE
    LET simple_transaction == get_simple_transaction(transaction)
        ins == InputLoop(transaction, store, simple_transaction, 1, 0, <<>>)
    IN  IF ins.err # "" THEN Rejected(ins.err)
        ELSE
        LET outs == OutputLoop(transaction, store, 1, 0, <<>>) IN
        IF outs.err # "" THEN Rejected(outs.err)
        ELSE IF ~(ins.total >= outs.total)
        THEN Rejected("output value must not excceed input value")
        ELSE LET reward == IF ins.missing = <<>> THEN ins.total - outs.total ELSE 0
             IN  [ok |-> TRUE, err |-> "", requires |-> ins.missing,
                  provides |-> outs.new_utxos, priority |-> as_u64(reward)]

\* Mutant of validate_transaction: the loop over the outputs runs before
\* the loop over the inputs.
validate_transaction_outputs_first(transaction, store) ==
    IF structural_checks(transaction) # ""
    THEN Rejected(structural_checks(transaction))
    ELSE
    LET simple_transaction == get_simple_transaction(transaction)
        outs == OutputLoop(transaction, store, 1, 0, <<>>)
    IN  IF outs.err # "" THEN Rejected(outs.err)
        ELSE
        LET ins == InputLoop(transaction, store, simple_transaction, 1, 0, <<>>) IN
        IF ins.err # "" THEN Rejected(ins.err)
        ELSE IF ins.missing = <<>> /\ ~(ins.total >= outs.total)
        THEN Rejected("output value must not excceed input value")
        ELSE LET reward == IF ins.missing = <<>> THEN ins.total - outs.total ELSE 0
             IN  [ok |-> TRUE, err |-> "", requires |-> ins.missing,
                  provides |-> outs.new_utxos, priority |-> as_u64(reward)]

validate_transaction(transaction, store) ==
    IF structural_checks(transaction) # ""
    THEN Rejected(structural_checks(transaction))
    ELSE
    LET simple_transaction == get_simple_transaction(transaction)
        ins == InputLoop(transaction, store, simple_transaction, 1, 0, <<>>)
    IN  IF ins.err # "" THEN Rejected(ins.err)
        ELSE
        LET outs == OutputLoop(transaction, store, 1, 0, <<>>) IN
        IF outs.err # "" THEN Rejected(outs.err)
        ELSE IF ins.missing = <<>> /\ ~(ins.total >= outs.total)
        THEN Rejected("output value must not excceed input value")
        ELSE LET reward == IF ins.missing = <<>> THEN ins.total - outs.total ELSE 0
             IN  [ok |-> TRUE, err |-> "", requires |-> ins.missing,
                  provides |-> outs.new_utxos, priority |-> as_u64(reward)]

---------------------------------------------------------------------------
(* update_storage                                                          *)

\* <UtxoStore>::insert(hash, utxo)
StoreInsert(store, hash, utxo) ==
    [id \in DOMAIN store \cup {hash} |-> IF id = hash THEN utxo ELSE store[id]]

\* <UtxoStore>::remove for every id of a set
StoreRemove(store, ids) ==
    [id \in DOMAIN store \ ids |-> store[id]]

\* The loop inserting the outputs, from output i on (index = i - 1).
\* `writes` logs each insert: the id and whether it was present already.
\* Mutant of InsertOutputs: the output index starts at 1.
RECURSIVE InsertOutputsFromOne(_, _, _, _)
InsertOutputsFromOne(transaction, store, i, writes) ==
    IF i > Len(transaction.outputs)
    THEN [store |-> store, writes |-> writes]
    ELSE LET hash == hash_of_encoded_index(encode(transaction), i) IN
         InsertOutputsFromOne(transaction,
                       StoreInsert(store, hash, transaction.outputs[i]),
                       i + 1,
                       Append(writes, [id |-> hash, utxo |-> transaction.outputs[i],
                                       existed |-> hash \in DOMAIN store]))

RECURSIVE InsertOutputs(_, _, _, _)
InsertOutputs(transaction, store, i, writes) ==
    IF i > Len(transaction.outputs)
    THEN [store |-> store, writes |-> writes]
    ELSE LET hash == hash_of_encoded_index(encode(transaction), i - 1) IN
         InsertOutputs(transaction,
                       StoreInsert(store, hash, transaction.outputs[i]),
                       i + 1,
                       Append(writes, [id |-> hash, utxo |-> transaction.outputs[i],
                                       existed |-> hash \in DOMAIN store]))

\* Mutant of update_storage: the inputs are removed and the outputs inserted
\* before the reward is added with checked_add.
update_storage_late_check(transaction, reward, store, reward_total) ==
    LET new_total == checked_add(reward_total, reward)
        removed == StoreRemove(store,
                       {transaction.inputs[i].out_point :
                           i \in 1..Len(transaction.inputs)})
        ins == InsertOutputs(transaction, removed, 1, <<>>)
    IN  IF ~new_total.ok
        THEN [ok |-> FALSE, err |-> "reward overflow", store |-> ins.store,
              reward_total |-> reward_total, writes |-> ins.writes]
        ELSE [ok |-> TRUE, err |-> "", store |-> ins.store,
              reward_total |-> new_total.val, writes |-> ins.writes]

update_storage(transaction, reward, store, reward_total) ==
    LET new_total == checked_add(reward_total, reward) IN
    IF ~new_total.ok
    THEN [ok |-> FALSE, err |-> "reward overflow", store |-> store,
          reward_total |-> reward_total, writes |-> <<>>]
    ELSE LET removed == StoreRemove(store,
                            {transaction.inputs[i].out_point :
                                i \in 1..Len(transaction.inputs)})
             ins == InsertOutputs(transaction, removed, 1, <<>>)
         IN  [ok |-> TRUE, err |-> "", store |-> ins.store,
              reward_total |-> new_total.val, writes |-> ins.writes]

---------------------------------------------------------------------------
(* disperse_reward                                                         *)

\* The loop over the authorities, from authority i on.
RECURSIVE RewardLoop(_, _, _, _, _, _)
RewardLoop(auths, share_value, bn, store, i, writes) ==
    IF i > Len(auths)
    THEN [store |-> store, writes |-> writes]
    ELSE LET utxo == TransactionOutput(share_value, auths[i])
             hash == hash_of_output_block(utxo, bn)
         IN  IF ~(hash \in DOMAIN store)
             THEN RewardLoop(auths, share_value, bn,
                             StoreInsert(store, hash, utxo), i + 1,
                             Append(writes, [id |-> hash, utxo |-> utxo,
                                             existed |-> hash \in DOMAIN store]))
             ELSE RewardLoop(auths, share_value, bn, store, i + 1, writes)

\* Mutant of disperse_reward: the remainder is not put back.
disperse_reward_no_carry(auths, bn, store, reward_total) ==
    LET reward == reward_total
        n == Len(auths)
    IN  IF n = 0
        THEN [panic |-> TRUE, store |-> store, reward_total |-> 0, writes |-> <<>>]
        ELSE LET share_value == reward \div n IN
             IF share_value = 0
             THEN [panic |-> FALSE, store |-> store, reward_total |-> 0,
                   writes |-> <<>>]
             ELSE LET loop == RewardLoop(auths, share_value, bn, store, 1, <<>>)
                  IN  [panic |-> FALSE, store |-> loop.store,
                       reward_total |-> 0, writes |-> loop.writes]

\* Yields the storage after the call, the inserts made, and whether the
\* call panicked (unwrap on the Err of a division by zero).  RewardTotal
\* has been taken (left at 0) before the division.
disperse_reward(auths, bn, store, reward_total) ==
    LET reward == reward_total
        n == Len(auths)
    IN  IF n = 0
        THEN [panic |-> TRUE, store |-> store, reward_total |-> 0, writes |-> <<>>]
        ELSE LET share_value == reward \div n IN
             IF share_value = 0
             THEN [panic |-> FALSE, store |-> store, reward_total |-> 0,
                   writes |-> <<>>]
             ELSE LET remainder == reward - share_value * n
                      loop == RewardLoop(auths, share_value, bn, store, 1, <<>>)
                  IN  [panic |-> FALSE, store |-> loop.store,
                       reward_total |-> remainder, writes |-> loop.writes]

---------------------------------------------------------------------------
(* Genesis                                                                 *)

\* config.genesis_utxos
genesis_utxos ==
    <<TransactionOutput(MaxPriority, 1), TransactionOutput(MaxValue, 2)>>

\* UtxoStore build(...): every configured output keyed by the hash of its
\* own encoding, inserted in list order.
\* Mutant of GenesisBuild: every output keyed by the hash of its encoding
\* and its position in the list.
RECURSIVE GenesisBuildKeyedByPosition(_, _, _)
GenesisBuildKeyedByPosition(utxos, i, store) ==
    IF i > Len(utxos) THEN store
    ELSE GenesisBuildKeyedByPosition(utxos, i + 1,
             StoreInsert(store, hash_of_output_block(utxos[i], i), utxos[i]))

RECURSIVE GenesisBuild(_, _, _)
GenesisBuild(utxos, i, store) ==
    IF i > Len(utxos) THEN store
    ELSE GenesisBuild(utxos, i + 1,
                      StoreInsert(store, hash_of_output(utxos[i]), utxos[i]))

EmptyStore == [id \in {} |-> DefaultOutput]

\* The authority lists Aura is configured with: none, two keys, and two
\* keys of which one is listed twice.
AuthorityConfigs == {<<>>, <<1, 2>>, <<1, 2, 1>>}

\* Storage after genesis, for a given list of genesis outputs and a given
\* Aura configuration.
GenesisFrom(utxos, auths) ==
    /\ UtxoStore = GenesisBuild(utxos, 1, EmptyStore)
    /\ RewardTotal = 0
    /\ authorities = auths
    /\ config = utxos
    /\ events = <<>>
    /\ block_number = 1
    /\ finalized = FALSE
    /\ panicked = FALSE
    /\ spent = EmptyStore
    /\ commits = 0
    /\ last = [op |-> "genesis", tx |-> DefaultTransaction,
               result |-> "", store |-> GenesisBuild(utxos, 1, EmptyStore),
               reward_total |-> 0, events |-> <<>>, writes |-> <<>>]

\* Storage after genesis of the chain explored in Spec and SpecWide.
Genesis(auths) == GenesisFrom(genesis_utxos, auths)

Init == \E auths \in AuthorityConfigs : Genesis(auths)

---------------------------------------------------------------------------
(* spend                                                                   *)

\* Mutant of spend: the result of validate_transaction is not propagated
\* with `?` before update_storage runs.
spend_commit_on_error(transaction, store, reward_total, evs) ==
    LET valid_transaction == validate_transaction(transaction, store)
        upd == update_storage(transaction, as_Value(valid_transaction.priority),
                              store, reward_total)
    IN  IF ~valid_transaction.ok
        THEN [result |-> valid_transaction.err, store |-> upd.store,
              reward_total |-> upd.reward_total, events |-> evs,
              writes |-> upd.writes]
        ELSE IF ~upd.ok
        THEN [result |-> upd.err, store |-> upd.store,
              reward_total |-> upd.reward_total, events |-> evs,
              writes |-> upd.writes]
        ELSE [result |-> "ok", store |-> upd.store,
              reward_total |-> upd.reward_total,
              events |-> Append(evs, transaction), writes |-> upd.writes]

\* What spend leaves in storage and in the event log, and what it returns.
\* Storage writes are made in place: an Err from update_storage leaves
\* whatever update_storage had written by then.
spend(transaction, store, reward_total, evs) ==
    LET valid_transaction == validate_transaction(transaction, store) IN
    IF ~valid_transaction.ok
    THEN [result |-> valid_transaction.err, store |-> store,
          reward_total |-> reward_total, events |-> evs, writes |-> <<>>]
    ELSE LET upd == update_storage(transaction, as_Value(valid_transaction.priority),
                                   store, reward_total)
         IN  IF ~upd.ok
             THEN [result |-> upd.err, store |-> upd.store,
                   reward_total |-> upd.reward_total, events |-> evs,
                   writes |-> upd.writes]
             ELSE [result |-> "ok", store |-> upd.store,
                   reward_total |-> upd.reward_total,
                   events |-> Append(evs, transaction), writes |-> upd.writes]

Spend(transaction) ==
    /\ ~panicked
    /\ ~finalized
    /\ LET r == spend(transaction, UtxoStore, RewardTotal, events) IN
       /\ UtxoStore' = r.store
       /\ RewardTotal' = r.reward_total
       /\ events' = r.events
       /\ spent' = [id \in DOMAIN spent \cup (DOMAIN UtxoStore \ DOMAIN r.store) |->
                        IF id \in DOMAIN UtxoStore THEN UtxoStore[id] ELSE spent[id]]
       /\ commits' = IF r.result = "ok" THEN commits + 1 ELSE commits
       /\ last' = [op |-> "spend", tx |-> transaction,
                   result |-> r.result, store |-> UtxoStore,
                   reward_total |-> RewardTotal, events |-> events,
                   writes |-> r.writes]
    /\ UNCHANGED <<authorities, config, block_number, finalized, panicked>>

---------------------------------------------------------------------------
(* on_finalize                                                             *)

OnFinalize ==
    /\ ~panicked
    /\ ~finalized
    /\ block_number <= MaxFinalized
    /\ LET r == disperse_reward(authorities, block_number, UtxoStore, RewardTotal) IN
       /\ UtxoStore' = r.store
       /\ RewardTotal' = r.reward_total
       /\ panicked' = r.panic
       /\ last' = [op |-> "on_finalize", tx |-> DefaultTransaction,
                   result |-> IF r.panic THEN "panic" ELSE "ok",
                   store |-> UtxoStore, reward_total |-> RewardTotal,
                   events |-> events, writes |-> r.writes]
    /\ finalized' = TRUE
    /\ UNCHANGED <<authorities, config, events, block_number, spent, commits>>

\* The next block starts: frame_system advances the block number and
\* clears the block's events.
NextBlock ==
    /\ ~panicked
    /\ finalized
    /\ block_number' = block_number + 1
    /\ finalized' = FALSE
    /\ events' = <<>>
    /\ last' = [op |-> "next_block", tx |-> DefaultTransaction,
                result |-> "", store |-> UtxoStore, reward_total |-> RewardTotal,
                events |-> events, writes |-> <<>>]
    /\ UNCHANGED <<UtxoStore, RewardTotal, authorities, config, panicked, spent,
                   commits>>

---------------------------------------------------------------------------
(* Transactions submitted                                                  *)

\* Ids a submitter can name: unspent outputs and outputs spent earlier.
Known == DOMAIN UtxoStore \cup DOMAIN spent

\* The key that owns, or owned, a known output.
Owner(id) ==
    IF id \in DOMAIN UtxoStore THEN UtxoStore[id].pub_key ELSE spent[id].pub_key

\* A transaction with its inputs unsigned.
Unsigned(out_points, outputs) ==
    [inputs  |-> [i \in 1..Len(out_points) |-> TransactionInput(out_points[i], ZeroSig)],
     outputs |-> outputs]

\* Spec: one input signed by the output's owner over the signing payload,
\* one output.
ChainOutputs ==
    {TransactionOutput(1, 1), TransactionOutput(Pow2(PriorityBits), 1)}

ChainTransactions ==
    {[inputs  |-> <<TransactionInput(op,
                       Sign(Owner(op), 1,
                            get_simple_transaction(Unsigned(<<op>>, <<out>>))))>>,
      outputs |-> <<out>>] :
        op \in Known, out \in ChainOutputs}

SpendChain ==
    /\ commits < MaxCommits
    /\ \E transaction \in ChainTransactions : Spend(transaction)

Next ==
    \/ SpendChain
    \/ OnFinalize
    \/ NextBlock

Spec == Init /\ [][Next]_vars

---------------------------------------------------------------------------
(* SpecWide: one arbitrary transaction as the first call after genesis.    *)

\* An id that is in no ledger.
UnknownId == hash_of_output(DefaultOutput)

\* The id of the first output of a transaction that was never committed.
UnknownTxId == hash_of_encoded_index(encode(DefaultTransaction), 0)

\* Sequences over S of length 0..n.
SeqUpTo(S, n) == UNION {[1..m -> S] : m \in 0..n}

WideOutputs ==
    {TransactionOutput(0, 1), TransactionOutput(1, 1), TransactionOutput(1, 2),
     TransactionOutput(MaxValue, 1)}

\* The owner of a known output; key 1 stands in for an unknown id.
SignerFor(id) == IF id \in Known THEN Owner(id) ELSE 1

\* Signatures tried on the first input of a transaction: every key and
\* nonce over the signing payload, the owner over another payload, and
\* the zero signature.
FirstSignatures(out_points, outputs) ==
    {Sign(k, n, get_simple_transaction(Unsigned(out_points, outputs))) :
        k \in Keys, n \in Nonces}
    \cup {Sign(SignerFor(out_points[1]), 1,
               get_simple_transaction(Unsigned(out_points, <<>>)))}
    \cup {ZeroSig}

\* The transaction over out_points and outputs whose input p carries sig
\* and whose other inputs are signed by their owners.
SignedAt(out_points, outputs, p, sig) ==
    [inputs  |-> [i \in 1..Len(out_points) |->
                    TransactionInput(out_points[i],
                        IF i = p THEN sig
                        ELSE Sign(SignerFor(out_points[i]), 1,
                                  get_simple_transaction(Unsigned(out_points, outputs))))],
     outputs |-> outputs]

Signed(out_points, outputs, sig) == SignedAt(out_points, outputs, 1, sig)

\* A key that is not k.
OtherKey(k) == CHOOSE x \in Keys : x # k

\* The transaction over out_points and outputs whose last input is signed
\* by another key than its owner's and whose other inputs are signed by
\* their owners.
LastForged(out_points, outputs) ==
    SignedAt(out_points, outputs, Len(out_points),
             Sign(OtherKey(SignerFor(out_points[Len(out_points)])), 1,
                  get_simple_transaction(Unsigned(out_points, outputs))))

\* Input lists that reference outputs not created yet, the id of a
\* transaction output among them.
PendingOutPoints ==
    {out_points \in SeqUpTo({UnknownId, UnknownTxId}, MaxInputs) :
        UnknownTxId \in Range(out_points)}

\* The input lists and the output lists of the transactions submitted.
WideOutPoints == SeqUpTo(Known \cup {UnknownId}, MaxInputs) \cup PendingOutPoints

WideOutputLists == SeqUpTo(WideOutputs, MaxOutputs)

\* The transactions submitted over given input and output lists.
TransactionsOver(out_points, outputs) ==
    IF out_points = <<>> THEN {Unsigned(out_points, outputs)}
    ELSE IF out_points \in PendingOutPoints
    THEN {Signed(out_points, outputs, ZeroSig)}
    ELSE {Signed(out_points, outputs, sig) :
            sig \in FirstSignatures(out_points, outputs)}
         \cup (IF Len(out_points) >= 2
               THEN {LastForged(out_points, outputs)} ELSE {})

WideTransactions ==
    UNION {TransactionsOver(out_points, outputs) :
              out_points \in WideOutPoints, outputs \in WideOutputLists}

SpendWide ==
    /\ last.op = "genesis"
    /\ \E out_points \in WideOutPoints : \E outputs \in WideOutputLists :
           \E transaction \in TransactionsOver(out_points, outputs) :
               Spend(transaction)

\* The transaction just committed is submitted once more.
Replay ==
    /\ last.op = "spend"
    /\ last.result = "ok"
    /\ commits = 1
    /\ Spend(last.tx)

NextWide ==
    \/ SpendWide
    \/ Replay
    \/ OnFinalize
    \/ NextBlock

SpecWide == Init /\ [][NextWide]_vars

\* Any list of genesis outputs, zero-valued and repeated ones included
\* (the build closure validates nothing), followed by one block with at
\* most one spend of a genesis output.
GenesisOutputs ==
    {TransactionOutput(v, k) : v \in {0, 1, MaxValue}, k \in Keys}

GenesisConfigs == SeqUpTo(GenesisOutputs, MaxGenesis)

InitGenesis ==
    \E utxos \in GenesisConfigs : \E auths \in AuthorityConfigs :
        GenesisFrom(utxos, auths)

SpendGenesis ==
    /\ last.op = "genesis"
    /\ \E transaction \in ChainTransactions : Spend(transaction)

NextGenesis ==
    \/ SpendGenesis
    \/ OnFinalize
    \/ NextBlock

SpecGenesis == InitGenesis /\ [][NextGenesis]_vars

---------------------------------------------------------------------------
(* Properties                                                              *)

\* The last call was spend / on_finalize.
LastSpend == last.op = "spend"
LastFinalize == last.op = "on_finalize"

\* The last call left the two storage items as it found them.
LedgerUnchanged ==
    /\ UtxoStore = last.store
    /\ RewardTotal = last.reward_total

\* The out_points of the inputs of a transaction.
OutPoints(transaction) ==
    {transaction.inputs[i].out_point : i \in 1..Len(transaction.inputs)}

\* Two elements of a list are equal.
HasDuplicate(list) ==
    \E i, j \in 1..Len(list) : i < j /\ list[i] = list[j]

\* Sum of the value fields of a sequence of outputs.
RECURSIVE SumValues(_)
SumValues(outs) ==
    IF outs = <<>> THEN 0 ELSE outs[1].value + SumValues(Tail(outs))

\* The sum, over the inputs in order, of the value of the ledger entry each
\* references (inputs whose out_point is absent contribute nothing).
RECURSIVE InputValue(_, _)
InputValue(inputs, store) ==
    IF inputs = <<>> THEN 0
    ELSE (IF inputs[1].out_point \in DOMAIN store
          THEN store[inputs[1].out_point].value ELSE 0)
         + InputValue(Tail(inputs), store)

\* The ids under which the outputs of a transaction are stored.
OutputIds(transaction) ==
    {hash_of_encoded_index(encode(transaction), i - 1) :
        i \in 1..Len(transaction.outputs)}

\* The entries removed by commits before the last call.
SpentBefore ==
    DOMAIN spent \ (DOMAIN last.store \ DOMAIN UtxoStore)

\* C1 (as claimed): a spend of a transaction with an input whose out_point
\* is absent from the ledger leaves UtxoStore and RewardTotal unchanged.
C1_PendingNeverCommitted ==
    (LastSpend /\ OutPoints(last.tx) \ DOMAIN last.store # {})
        => LedgerUnchanged

\* C2 (as claimed): a spend of a transaction with an input referencing an
\* id that an earlier commit removed is never committed: it does not
\* return Ok, creates no output and changes nothing.
C2_NoDoubleSpend ==
    (LastSpend /\ OutPoints(last.tx) \cap SpentBefore # {})
        => (last.result # "ok" /\ last.writes = <<>> /\ LedgerUnchanged)

\* C3 (as claimed): a committed transaction all of whose inputs are in the
\* ledger has outputs worth no more than its inputs, and adds exactly
\* sum(inputs) - sum(outputs) to RewardTotal.
C3_Conservation ==
    (LastSpend /\ last.result = "ok" /\ OutPoints(last.tx) \subseteq DOMAIN last.store)
        => /\ SumValues(last.tx.outputs) <= InputValue(last.tx.inputs, last.store)
           /\ RewardTotal - last.reward_total
                = InputValue(last.tx.inputs, last.store) - SumValues(last.tx.outputs)

\* The error messages of validate_transaction.
ValidationErrors ==
    {"no inputs", "no outputs", "each input must only be used once",
     "each output must only be used once", "signature must be valid",
     "input value overflow", "output value must be nonzero",
     "output already exists", "output value overflow",
     "output value must not excceed input value"}

\* C4: when validate_transaction returns an error, spend returns that error
\* and UtxoStore, RewardTotal and the events are as before the call; a
\* spend that returns a validation error has written nothing.
C4_RejectedLeavesLedger ==
    LastSpend =>
        /\ ~validate_transaction(last.tx, last.store).ok
             => last.result = validate_transaction(last.tx, last.store).err
        /\ last.result \in ValidationErrors
             => /\ LedgerUnchanged
                /\ events = last.events
                /\ last.writes = <<>>

\* Scenario B: a transaction whose outputs exceed its inputs was rejected.
C4_Witness ==
    /\ LastSpend
    /\ last.result = "output value must not excceed input value"
    /\ OutPoints(last.tx) \subseteq DOMAIN last.store
    /\ SumValues(last.tx.outputs) > InputValue(last.tx.inputs, last.store)
    /\ LedgerUnchanged

\* C5: when a validated transaction's reward added to RewardTotal exceeds
\* the largest Value, spend returns the reward-overflow error with no input
\* removed, no output inserted, RewardTotal unchanged and no event emitted.
C5_RewardOverflowAtomic ==
    LastSpend =>
        /\ ( /\ validate_transaction(last.tx, last.store).ok
             /\ last.reward_total
                  + validate_transaction(last.tx, last.store).priority > MaxValue )
             => last.result = "reward overflow"
        /\ last.result = "reward overflow"
             => /\ LedgerUnchanged
                /\ events = last.events
                /\ last.writes = <<>>

\* A spend whose reward would overflow the pool: its input is still there.
C5_Witness ==
    /\ LastSpend
    /\ last.result = "reward overflow"
    /\ last.reward_total > 0
    /\ OutPoints(last.tx) \subseteq DOMAIN UtxoStore
    /\ OutputIds(last.tx) \cap DOMAIN UtxoStore = {}

\* C6 (as claimed): on_finalize with no authorities does not panic and
\* leaves RewardTotal and UtxoStore as they were.
C6_EmptyAuthoritiesNoOp ==
    (LastFinalize /\ authorities = <<>>)
        => (~panicked /\ LedgerUnchanged)

\* The ids disperse_reward computes for a share, a block and the authorities.
RewardIds(share, bn) ==
    {hash_of_output_block(TransactionOutput(share, authorities[i]), bn) :
        i \in 1..Len(authorities)}

\* C7: with n >= 1 authorities and R div n > 0, on_finalize mints outputs of
\* value R div n only, one for each computed id that was not in the ledger
\* (owned by the authority the id is computed from), keeps every other
\* entry, and leaves R - (R div n) * n in RewardTotal.
C7_CarryForward ==
    LET n == Len(authorities)
        R == last.reward_total
        share == R \div n
        minted == RewardIds(share, block_number) \ DOMAIN last.store
    IN  (LastFinalize /\ n >= 1 /\ R \div n > 0)
        => /\ RewardTotal = R - share * n
           /\ \A i \in 1..Len(last.writes) : last.writes[i].utxo.value = share
           /\ {last.writes[i].id : i \in 1..Len(last.writes)} = minted
           /\ Len(last.writes) = Cardinality(minted)
           /\ DOMAIN UtxoStore = DOMAIN last.store \cup minted
           /\ \A id \in DOMAIN last.store : UtxoStore[id] = last.store[id]
           /\ \A i \in 1..n :
                LET id == hash_of_output_block(
                              TransactionOutput(share, authorities[i]), block_number)
                IN  id \in minted
                      => UtxoStore[id] = TransactionOutput(share, authorities[i])

\* Two distinct authorities share a pool of 5: two outputs of 2, 1 carried.
C7_Witness ==
    /\ LastFinalize
    /\ authorities = <<1, 2>>
    /\ last.reward_total = 5
    /\ RewardTotal = 1
    /\ Len(last.writes) = 2
    /\ \A i \in 1..2 : last.writes[i].utxo.value = 2

\* C8 (as claimed): when the pooled reward R is positive and smaller than
\* the number of authorities, on_finalize mints nothing and leaves R in
\* RewardTotal.
C8_SmallRewardKept ==
    (LastFinalize /\ Len(authorities) >= 1
        /\ last.reward_total > 0 /\ last.reward_total < Len(authorities))
        => (last.writes = <<>> /\ RewardTotal = last.reward_total)

\* C9: no insert targets an id that is present; a transaction one of whose
\* output ids is in the ledger is rejected with nothing written; and
\* on_finalize leaves every existing entry as it is.
C9_NoOverwrite ==
    /\ \A i \in 1..Len(last.writes) : ~last.writes[i].existed
    /\ (LastSpend /\ OutputIds(last.tx) \cap DOMAIN last.store # {})
         => (last.result # "ok" /\ last.writes = <<>> /\ LedgerUnchanged)
    /\ LastFinalize
         => \A id \in DOMAIN last.store :
                id \in DOMAIN UtxoStore /\ UtxoStore[id] = last.store[id]

\* A transaction that passes every other check is rejected because its
\* output id is in the ledger.
C9_Witness ==
    /\ LastSpend
    /\ last.result = "output already exists"
    /\ OutputIds(last.tx) \subseteq DOMAIN last.store
    /\ LedgerUnchanged

\* C10 (as claimed): a transaction with two equal inputs is rejected with
\* the duplicate-input error and one with two equal outputs with the
\* duplicate-output error, with no state change.
C10_DuplicateRejected ==
    LastSpend =>
        /\ HasDuplicate(last.tx.inputs)
             => (last.result = "each input must only be used once" /\ LedgerUnchanged)
        /\ HasDuplicate(last.tx.outputs)
             => (last.result = "each output must only be used once" /\ LedgerUnchanged)

\* C10 (amended): a transaction with at least one output and two equal
\* inputs is rejected with the duplicate-input error; a transaction with at
\* least one input, no two inputs equal, and two equal outputs is rejected
\* with the duplicate-output error; in both cases whatever the ledger holds
\* for its out_points, and with no state change.
C10_DuplicateRejectedInOrder ==
    LastSpend =>
        /\ (HasDuplicate(last.tx.inputs) /\ last.tx.outputs # <<>>)
             => /\ last.result = "each input must only be used once"
                /\ LedgerUnchanged /\ events = last.events
        /\ (HasDuplicate(last.tx.outputs) /\ last.tx.inputs # <<>>
                /\ ~HasDuplicate(last.tx.inputs))
             => /\ last.result = "each output must only be used once"
                /\ LedgerUnchanged /\ events = last.events

\* Scenario C: the same input listed twice, validly signed, on an unspent
\* output, with a well-formed output list.
C10_Witness ==
    /\ LastSpend
    /\ Len(last.tx.inputs) = 2
    /\ last.tx.inputs[1] = last.tx.inputs[2]
    /\ last.tx.inputs[1].out_point \in DOMAIN last.store
    /\ sr25519_verify(last.tx.inputs[1].sig_script,
                      get_simple_transaction(last.tx),
                      last.store[last.tx.inputs[1].out_point].pub_key)
    /\ Len(last.tx.outputs) = 1
    /\ last.tx.outputs[1].value > 0
    /\ last.result = "each input must only be used once"
    /\ LedgerUnchanged

\* Input i of a transaction references an entry of the store, and its
\* signature was made by another key than the entry's owner, or over
\* another message than the transaction's signing payload.
TamperedInput(transaction, store, i) ==
    LET input == transaction.inputs[i] IN
    /\ input.out_point \in DOMAIN store
    /\ \/ input.sig_script.signer # store[input.out_point].pub_key
       \/ input.sig_script.msg # get_simple_transaction(transaction)

\* C11 (as claimed): a transaction with an input on an existing entry whose
\* signature is by the wrong key or over another payload gets the
\* invalid-signature error and is not committed.
C11_TamperRejected ==
    (LastSpend /\ \E i \in 1..Len(last.tx.inputs) :
                      TamperedInput(last.tx, last.store, i))
        => (last.result = "signature must be valid" /\ LedgerUnchanged)

\* C11 (amended): such a transaction is never committed; it gets the
\* invalid-signature error when it has an output, no two equal inputs, no
\* two equal outputs, and the values of the entries referenced before the
\* tampered input fit in a Value.
C11_TamperRejectedInOrder ==
    LastSpend =>
        \A i \in 1..Len(last.tx.inputs) :
            TamperedInput(last.tx, last.store, i)
            => /\ last.result # "ok"
               /\ LedgerUnchanged
               /\ events = last.events
               /\ ( /\ last.tx.outputs # <<>>
                    /\ ~HasDuplicate(last.tx.inputs)
                    /\ ~HasDuplicate(last.tx.outputs)
                    /\ InputValue(SubSeq(last.tx.inputs, 1, i - 1), last.store)
                         <= MaxValue )
                  => last.result = "signature must be valid"

\* The owner of an unspent output signed the transaction with other
\* outputs than it now carries.
C11_Witness ==
    /\ LastSpend
    /\ Len(last.tx.inputs) >= 1
    /\ last.tx.inputs[1].out_point \in DOMAIN last.store
    /\ last.tx.inputs[1].sig_script.signer
         = last.store[last.tx.inputs[1].out_point].pub_key
    /\ last.tx.inputs[1].sig_script.nonce # 0
    /\ last.tx.inputs[1].sig_script.msg # get_simple_transaction(last.tx)
    /\ last.tx.outputs # <<>>
    /\ last.result = "signature must be valid"
    /\ LedgerUnchanged

\* C12: right after genesis the store holds the configured outputs and
\* nothing else, each under the hash of its own encoding, as many entries
\* as there are different configured outputs, and the reward pool is 0.
C12_GenesisCorrect ==
    last.op = "genesis"
        => /\ DOMAIN UtxoStore = {hash_of_output(config[i]) : i \in 1..Len(config)}
           /\ \A i \in 1..Len(config) :
                  UtxoStore[hash_of_output(config[i])] = config[i]
           /\ Cardinality(DOMAIN UtxoStore) = Cardinality(Range(config))
           /\ RewardTotal = 0

\* Genesis from two different outputs, one of them zero-valued.
C12_Witness ==
    /\ last.op = "genesis"
    /\ Len(config) = 2
    /\ config[1] # config[2]
    /\ config[1].value = 0
    /\ Cardinality(DOMAIN UtxoStore) = 2

\* C13: a spend call appends TransactionSuccess(tx) to the block's events
\* exactly once when it applied the transaction's effects, and appends
\* nothing and leaves the ledger alone otherwise; it applies no effects and
\* emits nothing for a transaction that is rejected or has a missing input.
C13_EventMatchesCommit ==
    LastSpend =>
        /\ \/ /\ events = Append(last.events, last.tx)
              /\ last.result = "ok"
              /\ \A i \in 1..Len(last.tx.inputs) :
                     last.tx.inputs[i].out_point \notin DOMAIN UtxoStore
              /\ \A id \in OutputIds(last.tx) : id \in DOMAIN UtxoStore
           \/ /\ events = last.events
              /\ last.result # "ok"
              /\ LedgerUnchanged
        /\ (\E i \in 1..Len(last.tx.inputs) :
                last.tx.inputs[i].out_point \notin DOMAIN last.store)
           => events = last.events

\* Sum of the values of the entries of a store under a set of ids.
RECURSIVE SumEntries(_, _)
SumEntries(ids, store) ==
    IF ids = {} THEN 0
    ELSE LET id == CHOOSE x \in ids : TRUE IN
         store[id].value + SumEntries(ids \ {id}, store)

\* C14: in a committed transaction every ledger entry is counted at most
\* once in total_input, also when two inputs name the same out_point with
\* different valid signatures: the input total that validation accumulated
\* is the sum of the values of the different entries the inputs reference.
C14_EntryCountedOnce ==
    (LastSpend /\ last.result = "ok") =>
        InputLoop(last.tx, last.store, get_simple_transaction(last.tx),
                  1, 0, <<>>).total
            = SumEntries(OutPoints(last.tx) \cap DOMAIN last.store, last.store)

\* The value held by a ledger: all unspent outputs plus the reward pool.
TotalValue(store, reward_total) ==
    SumEntries(DOMAIN store, store) + reward_total

\* The value of the configured genesis outputs (an output configured twice
\* is one ledger entry).
GenesisValue ==
    LET ids == {hash_of_output(config[i]) : i \in 1..Len(config)} IN
    SumEntries(ids, [id \in ids |-> id.utxo])

\* C15: the unspent outputs and the reward pool together never hold more
\* than the genesis outputs did, and a successful spend leaves their total
\* exactly as it was.
C15_NoValueCreation ==
    /\ TotalValue(UtxoStore, RewardTotal) <= GenesisValue
    /\ (LastSpend /\ last.result = "ok")
         => TotalValue(UtxoStore, RewardTotal)
              = TotalValue(last.store, last.reward_total)

\* The least element of a non-empty set of numbers.
Least(S) == CHOOSE x \in S : \A y \in S : x <= y

\* Input i references an entry of the store and is not signed by the
\* entry's owner over the transaction's signing payload.
InvalidSignature(transaction, store, i) ==
    \/ TamperedInput(transaction, store, i)
    \/ /\ transaction.inputs[i].out_point \in DOMAIN store
       /\ transaction.inputs[i].sig_script.nonce = 0

\* Input i references an entry of the store and the values referenced by
\* the inputs up to i exceed a Value.
InputOverflows(transaction, store, i) ==
    /\ transaction.inputs[i].out_point \in DOMAIN store
    /\ InputValue(SubSeq(transaction.inputs, 1, i), store) > MaxValue

\* Output j is stored under an id already in the store.
OutputCollides(transaction, store, j) ==
    hash_of_encoded_index(encode(transaction), j - 1) \in DOMAIN store

\* The error of the first check a transaction fails, in the order: no
\* inputs, no outputs, equal inputs, equal outputs, each input in turn
\* (signature, then input total), each output in turn (zero value, id in
\* use, output total), input total below output total; "" when none fails.
FirstFailure(transaction, store) ==
    LET inputs == transaction.inputs
        outputs == transaction.outputs
        badIn == {i \in 1..Len(inputs) :
                      \/ InvalidSignature(transaction, store, i)
                      \/ InputOverflows(transaction, store, i)}
        badOut == {j \in 1..Len(outputs) :
                      \/ outputs[j].value = 0
                      \/ OutputCollides(transaction, store, j)
                      \/ SumValues(SubSeq(outputs, 1, j)) > MaxValue}
    IN
    IF inputs = <<>> THEN "no inputs"
    ELSE IF outputs = <<>> THEN "no outputs"
    ELSE IF HasDuplicate(inputs) THEN "each input must only be used once"
    ELSE IF HasDuplicate(outputs) THEN "each output must only be used once"
    ELSE IF badIn # {} THEN
        IF InvalidSignature(transaction, store, Least(badIn))
        THEN "signature must be valid" ELSE "input value overflow"
    ELSE IF badOut # {} THEN
        IF outputs[Least(badOut)].value = 0 THEN "output value must be nonzero"
        ELSE IF OutputCollides(transaction, store, Least(badOut))
        THEN "output already exists"
        ELSE "output value overflow"
    ELSE IF /\ OutPoints(transaction) \subseteq DOMAIN store
            /\ InputValue(inputs, store) < SumValues(outputs)
    THEN "output value must not excceed input value"
    ELSE ""

\* The number of checks of FirstFailure's list a transaction fails, the
\* per-input and per-output checks counted once each.
FailureCount(transaction, store) ==
    LET inputs == transaction.inputs
        outputs == transaction.outputs
        B(c) == IF c THEN 1 ELSE 0
    IN
    B(inputs = <<>>) + B(outputs = <<>>)
    + B(HasDuplicate(inputs)) + B(HasDuplicate(outputs))
    + B(\E i \in 1..Len(inputs) : InvalidSignature(transaction, store, i))
    + B(\E i \in 1..Len(inputs) : InputOverflows(transaction, store, i))
    + B(\E j \in 1..Len(outputs) : outputs[j].value = 0)
    + B(\E j \in 1..Len(outputs) : OutputCollides(transaction, store, j))
    + B(SumValues(outputs) > MaxValue)
    + B(InputValue(inputs, store) < SumValues(outputs))

\* C16: the error a spend reports is the one of the first check the
\* transaction fails in the order of FirstFailure; when none fails,
\* validation succeeds and only the reward pool's overflow can still
\* reject the call.
C16_FirstFailureReported ==
    LastSpend =>
        LET e == FirstFailure(last.tx, last.store) IN
        IF e # "" THEN last.result = e /\ LedgerUnchanged
        ELSE last.result \in {"ok", "reward overflow"}

\* A transaction failing three checks of different stages is rejected
\* with the error of the earliest one.
C16_Witness ==
    /\ LastSpend
    /\ FailureCount(last.tx, last.store) >= 3
    /\ \E i \in 1..Len(last.tx.inputs) :
           InvalidSignature(last.tx, last.store, i)
    /\ \E j \in 1..Len(last.tx.outputs) : last.tx.outputs[j].value = 0
    /\ last.result = "signature must be valid"

\* The out_points of a transaction's inputs that are not in the store, in
\* input order.
AbsentOutPoints(transaction, store) ==
    LET Absent(out_point) == out_point \notin DOMAIN store IN
    SelectSeq([i \in 1..Len(transaction.inputs) |->
                  transaction.inputs[i].out_point], Absent)

\* C17: when validation succeeds, requires lists the absent out_points in
\* input order (none when every input is present), provides lists the ids
\* of all outputs in order, and every present input carries a valid
\* signature; with an absent input the reward is 0 and the transaction is
\* accepted whatever its totals, provided no other check fails.
C17_PendingDescriptor ==
    LastSpend =>
        LET v == validate_transaction(last.tx, last.store)
            absent == AbsentOutPoints(last.tx, last.store)
        IN
        /\ v.ok => /\ v.requires = absent
                   /\ v.provides = [j \in 1..Len(last.tx.outputs) |->
                                       hash_of_encoded_index(encode(last.tx), j - 1)]
                   /\ absent # <<>> => v.priority = 0
                   /\ \A i \in 1..Len(last.tx.inputs) :
                          ~InvalidSignature(last.tx, last.store, i)
        /\ (absent # <<>> /\ FirstFailure(last.tx, last.store) = "") => v.ok
        /\ (\E i \in 1..Len(last.tx.inputs) :
                InvalidSignature(last.tx, last.store, i)) => ~v.ok

\* A transaction with a present, validly signed input and an absent one,
\* whose outputs are worth more than the present input, validates as
\* pending.
C17_Witness ==
    /\ LastSpend
    /\ validate_transaction(last.tx, last.store).ok
    /\ Len(validate_transaction(last.tx, last.store).requires) = 1
    /\ \E i \in 1..Len(last.tx.inputs) :
           last.tx.inputs[i].out_point \in DOMAIN last.store
    /\ InputValue(last.tx.inputs, last.store) < SumValues(last.tx.outputs)

\* C18: a successful spend removes exactly the entries under the
\* transaction's input out_points, each of which was in the store before
\* the call, inserts exactly the transaction's outputs under the ids
\* reported in provides, adds the reported reward to the reward pool, and
\* leaves every other entry as it was.
C18_CommitFrame ==
    (LastSpend /\ last.result = "ok") =>
        LET v == validate_transaction(last.tx, last.store) IN
        /\ DOMAIN UtxoStore
             = (DOMAIN last.store \ OutPoints(last.tx)) \cup Range(v.provides)
        /\ Len(v.provides) = Len(last.tx.outputs)
        /\ \A j \in 1..Len(last.tx.outputs) :
               UtxoStore[v.provides[j]] = last.tx.outputs[j]
        /\ \A id \in DOMAIN last.store \ OutPoints(last.tx) :
               UtxoStore[id] = last.store[id]
        /\ RewardTotal = last.reward_total + as_Value(v.priority)
        /\ OutPoints(last.tx) \subseteq DOMAIN last.store

\* The ids of the genesis entries.
GenesisIds == {hash_of_output(config[i]) : i \in 1..Len(config)}

\* C19: every entry a spend or on_finalize writes has a value above zero,
\* so every entry of the store that is not a genesis entry has one.
C19_NoZeroValueCreated ==
    /\ \A w \in 1..Len(last.writes) : last.writes[w].utxo.value > 0
    /\ \A id \in DOMAIN UtxoStore \ GenesisIds : UtxoStore[id].value > 0

\* on_finalize has paid reward shares into a store that also holds an
\* output created by a spend.
C19_Witness ==
    /\ LastFinalize
    /\ last.writes # <<>>
    /\ \E id \in DOMAIN UtxoStore : id.pre = "tx"
    /\ \E id \in DOMAIN UtxoStore \ DOMAIN last.store : id.pre = "reward"

\* The transaction that spends the out_point id, owned by key, into one
\* output, signed by key.
Child(id, key, output) ==
    Signed(<<id>>, <<output>>,
           Sign(key, 1, get_simple_transaction(Unsigned(<<id>>, <<output>>))))

\* The descriptor of Child validated against the store before the last
\* call, and against the store after it.
ChildBefore(j, output) ==
    validate_transaction(
        Child(validate_transaction(last.tx, last.store).provides[j],
              last.tx.outputs[j].pub_key, output),
        last.store)

ChildAfter(j, output) ==
    validate_transaction(
        Child(validate_transaction(last.tx, last.store).provides[j],
              last.tx.outputs[j].pub_key, output),
        UtxoStore)

\* C20: for a transaction P just committed and a transaction C whose only
\* input references an output id that P provides, signed by that output's
\* owner: validated against the store before P's commit, C misses exactly
\* that id and is pending with that id in requires if it is accepted,
\* which it is when its own output id is not in use;
\* validated against the store after P's commit, C finds the id, counts
\* the output's value as its input total and has empty requires if it is
\* accepted, which it is when its output is worth no more than the input.
C20_DependencyResolved ==
    (LastSpend /\ last.result = "ok") =>
        \A j \in 1..Len(last.tx.outputs) : \A output \in ChainOutputs :
            LET id == validate_transaction(last.tx, last.store).provides[j]
                C == Child(id, last.tx.outputs[j].pub_key, output)
                payload == get_simple_transaction(C)
                before == InputLoop(C, last.store, payload, 1, 0, <<>>)
                after == InputLoop(C, UtxoStore, payload, 1, 0, <<>>)
            IN
            /\ before = [err |-> "", total |-> 0, missing |-> <<id>>]
            /\ ChildBefore(j, output).ok => ChildBefore(j, output).requires = <<id>>
            /\ OutputIds(C) \cap DOMAIN last.store = {} => ChildBefore(j, output).ok
            /\ after = [err |-> "", total |-> last.tx.outputs[j].value,
                        missing |-> <<>>]
            /\ ChildAfter(j, output).ok => ChildAfter(j, output).requires = <<>>
            /\ (output.value <= last.tx.outputs[j].value
                /\ OutputIds(C) \cap DOMAIN UtxoStore = {})
               => ChildAfter(j, output).ok

\* P has committed; a C spending P's first output is pending before the
\* commit and fully valid after it.
C20_Witness ==
    /\ LastSpend
    /\ last.result = "ok"
    /\ \E output \in ChainOutputs :
           /\ ChildBefore(1, output).ok
           /\ ChildBefore(1, output).requires # <<>>
           /\ ChildAfter(1, output).ok
           /\ ChildAfter(1, output).requires = <<>>

=============================================================================
